---- MODULE Spec2Model ----
(***************************************************************************)
(* Model of dependency-checker: the version-comparison engine              *)
(* (highest satisfying version, upgrade-type classification, self-upgrade  *)
(* verdict) and the run that reads the manifest, validates the --check     *)
(* filter, reads the lock file, fans out one registry lookup per           *)
(* dependency, joins them and reports.                                     *)
(*                                                                         *)
(* Two programs of the repository are modelled:                            *)
(*   - src/unnamed/part_000 lines 1-238 (the lock-file aware CLI),         *)
(*   - src/index.js (the first CLI).                                       *)
(***************************************************************************)
EXTENDS Integers, Sequences, FiniteSets, TLC

\* ------------------------------------------------------------------------
\* Bounds of the version universe
\* ------------------------------------------------------------------------

\* the major component ranges over 0..MaxMajor
MaxMajor == 1

\* the minor component ranges over 0..MaxMinor
MaxMinor == 1

\* the patch components of the universe
Patches == {0, 1}

\* pre = 0 is a release; pre = k > 0 is the pre-release "-<k-1>"
PreIds == {0, 1}

\* ------------------------------------------------------------------------
\* Values
\* ------------------------------------------------------------------------

\* null / undefined
NULL == [tag |-> "null"]

\* the sentinel 'unknown' of getInstalledVersion
UNKNOWN == [tag |-> "unknown"]

\* a string that is no semantic version ("file:../x", "next")
BADVER == [tag |-> "not-a-version"]

\* a thrown TypeError (Invalid Version) leaving a function
THROW == "throw"

V(ma, mi, pa, pr) == [major |-> ma, minor |-> mi, patch |-> pa, pre |-> pr]

Versions == [major : 0..MaxMajor, minor : 0..MaxMinor, patch : Patches, pre : PreIds]

\* new SemVer(v) succeeds
IsValid(v) == v \notin {NULL, UNKNOWN, BADVER}

\* !v of JavaScript for the values a version variable holds
Falsy(v) == v = NULL

\* ------------------------------------------------------------------------
\* semver: precedence
\* ------------------------------------------------------------------------

CompareNum(a, b) == IF a < b THEN -1 ELSE IF a > b THEN 1 ELSE 0

\* SemVer.comparePre: a release is greater than any of its pre-releases
ComparePre(a, b) ==
    IF a = b THEN 0
    ELSE IF a = 0 THEN 1
    ELSE IF b = 0 THEN -1
    ELSE CompareNum(a, b)

\* SemVer.compare: major, minor, patch, then the pre-release
Compare(a, b) ==
    IF a.major # b.major THEN CompareNum(a.major, b.major)
    ELSE IF a.minor # b.minor THEN CompareNum(a.minor, b.minor)
    ELSE IF a.patch # b.patch THEN CompareNum(a.patch, b.patch)
    ELSE ComparePre(a.pre, b.pre)

\* semver.rcompare(a, b) = compare(b, a)
RCompare(a, b) == Compare(b, a)

\* ------------------------------------------------------------------------
\* semver: ranges
\* ------------------------------------------------------------------------

\* A declared range string, by its form:
\*   exact "1.2.3", caret "^1.2.3", tilde "~1.2.3", gte ">=1.2.3",
\*   lt "<1.2.3", and ">=v <w", or "v || w", any "*", empty "",
\*   bad "not a range"
R(kind, v, w) == [kind |-> kind, v |-> v, w |-> w]

V0 == V(0, 0, 0, 0)

RangeAny == R("any", V0, V0)

RangeEmpty == R("empty", V0, V0)

RangeBad == R("bad", V0, V0)

UnaryKinds == {"exact", "caret", "tilde", "gte", "lt"}

BinaryKinds == {"and", "or"}

\* !range of JavaScript
RangeFalsy(r) == r = NULL \/ r = RangeEmpty

Cmp(op, v) == [op |-> op, v |-> v]

\* the comparator that matches anything (Comparator.ANY)
CmpAny == [op |-> "any", v |-> V0]

\* replaceCaret: ^M.m.p keeps the leftmost non-zero component
CaretSet(v) ==
    IF v.major = 0
    THEN IF v.minor = 0
         THEN {Cmp(">=", v), Cmp("<", V(0, 0, v.patch + 1, 1))}
         ELSE {Cmp(">=", v), Cmp("<", V(0, v.minor + 1, 0, 1))}
    ELSE {Cmp(">=", v), Cmp("<", V(v.major + 1, 0, 0, 1))}

\* replaceTilde: ~M.m.p allows patch-level changes
TildeSet(v) == {Cmp(">=", v), Cmp("<", V(v.major, v.minor + 1, 0, 1))}

\* new Range(r) does not throw: r is a string (not undefined, not a nested
\* object) that parses
RangeValid(r) == "kind" \in DOMAIN r /\ r.kind # "bad"

\* new Range(r).set of a valid range: a set (||) of comparator sets (AND)
ParseRange(r) ==
    IF r.kind \in {"any", "empty"} THEN {{CmpAny}}
    ELSE IF r.kind = "exact" THEN {{Cmp("=", r.v)}}
    ELSE IF r.kind = "caret" THEN {CaretSet(r.v)}
    ELSE IF r.kind = "tilde" THEN {TildeSet(r.v)}
    ELSE IF r.kind = "gte" THEN {{Cmp(">=", r.v)}}
    ELSE IF r.kind = "lt" THEN {{Cmp("<", r.v)}}
    ELSE IF r.kind = "and" THEN {{Cmp(">=", r.v), Cmp("<", r.w)}}
    ELSE {{Cmp("=", r.v)}, {Cmp("=", r.w)}}

\* Comparator.test
CmpTest(c, v) ==
    IF c.op = "any" THEN TRUE
    ELSE IF c.op = "=" THEN Compare(v, c.v) = 0
    ELSE IF c.op = ">=" THEN Compare(v, c.v) >= 0
    ELSE IF c.op = ">" THEN Compare(v, c.v) > 0
    ELSE IF c.op = "<=" THEN Compare(v, c.v) <= 0
    ELSE Compare(v, c.v) < 0

\* testSet: every comparator holds, and a pre-release version is allowed
\* only by a comparator with a pre-release on the same major.minor.patch
TestSet(set, v) ==
    /\ \A c \in set : CmpTest(c, v)
    /\ v.pre # 0 =>
         \E c \in set : /\ c.op # "any"
                        /\ c.v.pre # 0
                        /\ c.v.major = v.major
                        /\ c.v.minor = v.minor
                        /\ c.v.patch = v.patch

\* semver.satisfies(version, range): false, never a throw, for an invalid
\* range or an invalid version
Satisfies(v, r) ==
    IF ~RangeValid(r) THEN FALSE
    ELSE IF ~IsValid(v) THEN FALSE
    ELSE \E set \in ParseRange(r) : TestSet(set, v)

\* ------------------------------------------------------------------------
\* The engine (part_000): range matcher, classifier, self-upgrade verdict
\* ------------------------------------------------------------------------

\* Array.prototype.filter
RECURSIVE FilterSeq(_, _)
FilterSeq(seq, r) ==
    IF seq = <<>> THEN <<>>
    ELSE IF Satisfies(Head(seq), r)
         THEN <<Head(seq)>> \o FilterSeq(Tail(seq), r)
         ELSE FilterSeq(Tail(seq), r)

\* one insertion step of the sort: v goes before the first element that the
\* comparator orders after it
RECURSIVE InsertBy(_, _)
InsertBy(v, sorted) ==
    IF sorted = <<>> THEN <<v>>
    ELSE IF RCompare(v, Head(sorted)) < 0
         THEN <<v>> \o sorted
         ELSE <<Head(sorted)>> \o InsertBy(v, Tail(sorted))

\* Array.prototype.sort(semver.rcompare): descending precedence
RECURSIVE SortDesc(_)
SortDesc(seq) ==
    IF seq = <<>> THEN <<>>
    ELSE InsertBy(Head(seq), SortDesc(Tail(seq)))

\* mutant of HighestSatisfying: the first satisfying version, unsorted
HighestSatisfyingUnsorted(range, allVersions) ==
    LET satisfyingVersions == FilterSeq(allVersions, range)
    IN  IF Len(satisfyingVersions) # 0 THEN Head(satisfyingVersions) ELSE NULL

\* satisfyingVersions / highestSatisfyingVersion of main
HighestSatisfying(range, allVersions) ==
    LET satisfyingVersions == FilterSeq(allVersions, range)
    IN  IF Len(satisfyingVersions) # 0
        THEN Head(SortDesc(satisfyingVersions))
        ELSE NULL

\* mutant of CheckUpgradeType: no test for the sentinel 'unknown'
CheckUpgradeTypeNoSentinel(installedVersion, latestVersion) ==
    IF Falsy(installedVersion) \/ Falsy(latestVersion)
    THEN "unknown"
    ELSE IF ~IsValid(installedVersion) \/ ~IsValid(latestVersion) THEN THROW
    ELSE IF Compare(installedVersion, latestVersion) = 0 THEN "none"
    ELSE IF latestVersion.major > installedVersion.major THEN "major"
    ELSE IF latestVersion.minor > installedVersion.minor THEN "minor"
    ELSE IF latestVersion.patch > installedVersion.patch THEN "patch"
    ELSE "none"

\* mutant of CheckUpgradeType: the components are looked at patch first
CheckUpgradeTypePatchFirst(installedVersion, latestVersion) ==
    IF Falsy(installedVersion) \/ installedVersion = UNKNOWN \/ Falsy(latestVersion)
    THEN "unknown"
    ELSE IF ~IsValid(installedVersion) \/ ~IsValid(latestVersion) THEN THROW
    ELSE IF Compare(installedVersion, latestVersion) = 0 THEN "none"
    ELSE IF latestVersion.patch > installedVersion.patch THEN "patch"
    ELSE IF latestVersion.minor > installedVersion.minor THEN "minor"
    ELSE IF latestVersion.major > installedVersion.major THEN "major"
    ELSE "none"

\* checkUpgradeType; semver.eq, semver.major, ... throw on an invalid version
CheckUpgradeType(installedVersion, latestVersion) ==
    IF Falsy(installedVersion) \/ installedVersion = UNKNOWN \/ Falsy(latestVersion)
    THEN "unknown"
    ELSE IF ~IsValid(installedVersion) \/ ~IsValid(latestVersion) THEN THROW
    ELSE IF Compare(installedVersion, latestVersion) = 0 THEN "none"
    ELSE IF latestVersion.major > installedVersion.major THEN "major"
    ELSE IF latestVersion.minor > installedVersion.minor THEN "minor"
    ELSE IF latestVersion.patch > installedVersion.patch THEN "patch"
    ELSE "none"

\* mutant of WillSelfUpgrade: >= where the code has >
WillSelfUpgradeGte(currentVersionRange, highestSatisfyingVersion, installedVersion, latestVersion) ==
    IF \/ Falsy(highestSatisfyingVersion)
       \/ RangeFalsy(currentVersionRange)
       \/ installedVersion = UNKNOWN
       \/ Falsy(latestVersion)
    THEN "false"
    ELSE IF ~IsValid(highestSatisfyingVersion) \/ ~IsValid(installedVersion) THEN THROW
    ELSE LET satisfiesRange == Satisfies(highestSatisfyingVersion, currentVersionRange)
             needsUpgrade == Compare(highestSatisfyingVersion, installedVersion) >= 0
         IN  IF satisfiesRange /\ needsUpgrade THEN "true" ELSE "false"

\* willSelfUpgrade: "true", "false" or THROW (semver.gt on an invalid version);
\* both satisfiesRange and needsUpgrade are computed before the &&
WillSelfUpgrade(currentVersionRange, highestSatisfyingVersion, installedVersion, latestVersion) ==
    IF \/ Falsy(highestSatisfyingVersion)
       \/ RangeFalsy(currentVersionRange)
       \/ installedVersion = UNKNOWN
       \/ Falsy(latestVersion)
    THEN "false"
    ELSE IF ~IsValid(highestSatisfyingVersion) \/ ~IsValid(installedVersion) THEN THROW
    ELSE LET satisfiesRange == Satisfies(highestSatisfyingVersion, currentVersionRange)
             needsUpgrade == Compare(highestSatisfyingVersion, installedVersion) > 0
         IN  IF satisfiesRange /\ needsUpgrade THEN "true" ELSE "false"

\* ------------------------------------------------------------------------
\* JSON objects: a sequence of entries in insertion order
\* ------------------------------------------------------------------------

Entry(k, v) == [key |-> k, val |-> v]

\* a nested object value
Obj(entries) == [obj |-> entries]

\* typeof value === 'string': the string leaves of a manifest are ranges
IsString(value) == "kind" \in DOMAIN value

\* typeof value === 'object' && value !== null
IsObject(value) == "obj" \in DOMAIN value

Keys(o) == {o[i].key : i \in 1..Len(o)}

\* o[k], undefined when k is no own property
ObjGet(o, k) ==
    IF k \in Keys(o) THEN o[CHOOSE i \in 1..Len(o) : o[i].key = k].val ELSE NULL

\* o[k] = v: an existing key keeps its place
ObjSet(o, k, v) ==
    IF k \in Keys(o)
    THEN [i \in 1..Len(o) |-> IF o[i].key = k THEN Entry(k, v) ELSE o[i]]
    ELSE Append(o, Entry(k, v))

\* Object.assign(target, src) and the spread {...target, ...src}
RECURSIVE ObjAssign(_, _)
ObjAssign(target, src) ==
    IF src = <<>> THEN target
    ELSE ObjAssign(ObjSet(target, Head(src).key, Head(src).val), Tail(src))

\* flattenDependencies: the recursive call gets `${key}/` as its prefix
RECURSIVE FlattenFrom(_, _, _)
FlattenFrom(entries, prefix, flattened) ==
    IF entries = <<>> THEN flattened
    ELSE LET key == Head(entries).key
             value == Head(entries).val
         IN  IF IsString(value)
             THEN FlattenFrom(Tail(entries), prefix, ObjSet(flattened, prefix \o key, value))
             ELSE IF IsObject(value)
             THEN FlattenFrom(Tail(entries), prefix,
                              ObjAssign(flattened, FlattenFrom(value.obj, key \o "/", <<>>)))
             ELSE FlattenFrom(Tail(entries), prefix, flattened)

FlattenDependencies(dependencies_, prefix) == FlattenFrom(dependencies_, prefix, <<>>)

\* { ...packageJson.dependencies, ...packageJson.devDependencies, ...packageJson.overrides }
MergedSections(packageJson) ==
    ObjAssign(ObjAssign(packageJson.dependencies, packageJson.devDependencies),
              packageJson.overrides)

\* ------------------------------------------------------------------------
\* The environment of a run: command line, files, registry
\* ------------------------------------------------------------------------

V100 == V(1, 0, 0, 0)

V110 == V(1, 1, 0, 0)

V200 == V(2, 0, 0, 0)

\* the ranges declared in the manifests of the runs
RunRanges == {R("caret", V100, V0), RangeBad, RangeEmpty}

\* package.json, parsed; a section is its entries, <<>> for a section that
\* is missing (spreading undefined adds nothing) or empty
Manifest(deps, dev, over) ==
    [dependencies |-> deps, devDependencies |-> dev, overrides |-> over]

Manifests ==
    {Manifest(<<>>, <<>>, <<>>)}
    \cup {Manifest(<<Entry("a", r)>>, <<>>, <<>>) : r \in RunRanges}
    \cup {Manifest(<<Entry("a", r)>>, <<Entry("b", R("caret", V100, V0))>>, <<>>) :
             r \in RunRanges}
    \cup {Manifest(<<Entry("a", R("caret", V100, V0))>>, <<>>, o) :
             o \in { <<Entry("a", R("exact", V100, V0))>>,
                     <<Entry("b", Obj(<<Entry("a", R("tilde", V100, V0))>>))>> }}

\* the name after --check; "" when the flag is not given (null, falsy)
CheckArgs == {"", "a", "b", "z"}

LockNames == {"a", "b"}

NoLockDeps == [n \in LockNames |-> NULL]

\* the version field of a lock entry; NULL where the lock has no entry
LockVersions == {NULL, V100, BADVER}

\* the lock file: neither file exists, a file that does not parse, or the
\* parsed dependencies of package-lock.json / yarn.lock
LockFiles ==
    [kind : {"none", "unparsable"}, deps : {NoLockDeps}]
    \cup [kind : {"package-lock.json"}, deps : [LockNames -> LockVersions]]
    \cup [kind : {"yarn.lock"}, deps : {[n \in LockNames |-> V100]}]

\* reading node_modules/<name>/package.json: it throws, or it yields the
\* version field (undefined when the file has none)
NodeModulesReads ==
    {[ok |-> FALSE, version |-> NULL], [ok |-> TRUE, version |-> NULL], [ok |-> TRUE, version |-> V110]}

\* how fetch settles
FetchOutcomes == {"network_error", "http_error", "ok"}

\* a publication date
Date(n) == [date |-> n]

RunVersionLists == {<<>>, <<V100, V110, V200>>}

\* the body of a response: not JSON, or the fields the code reads.
\* hasDistTags: data['dist-tags'] is an object; latest: its latest (NULL
\* when there is none); hasTime: data.time is an object; time:
\* data.time[latest]; hasVersions: data.versions is an object; versions: its keys
Payload(kind, hasDistTags, latest, hasTime, time, hasVersions, versions) ==
    [kind |-> kind, hasDistTags |-> hasDistTags, latest |-> latest, hasTime |-> hasTime,
     time |-> time, hasVersions |-> hasVersions, versions |-> versions]

InvalidJson == Payload("invalid_json", FALSE, NULL, FALSE, NULL, FALSE, <<>>)

\* the body of an error status: no JSON, or JSON without the package fields
ErrorPayloads == {InvalidJson, Payload("data", FALSE, NULL, FALSE, NULL, FALSE, <<>>)}

Payloads ==
    {InvalidJson}
    \cup {Payload("data", TRUE, l, TRUE, Date(1), TRUE, vs) :
             l \in {BADVER, V200}, vs \in RunVersionLists}
    \cup {Payload("data", d, NULL, TRUE, NULL, TRUE, <<V100, V110, V200>>) : d \in BOOLEAN}
    \cup {Payload("data", TRUE, V200, FALSE, NULL, TRUE, <<V100, V110, V200>>),
          Payload("data", TRUE, V200, TRUE, Date(1), FALSE, <<>>),
          Payload("data", TRUE, V200, TRUE, NULL, TRUE, <<V100, V110, V200>>)}

\* ------------------------------------------------------------------------
\* State
\* ------------------------------------------------------------------------

VARIABLES
    program,                \* "cli" (part_000), "index" (index.js) or "engine"
    argCheck,               \* the name after --check, "" without the flag
    manifest,               \* ./package.json: [readable, json]
    lock,                   \* the lock file found on disk
    pc,                     \* where main is: start, await, done, exit, crashed
    exitReason,             \* why the run ended early
    dependencies,           \* the merged (and, in the cli, flattened) declarations
    installedDependencies,  \* name -> locked version
    packagesToCheck,        \* the entries that are evaluated
    task,                   \* name -> the promise of its map callback
    results,                \* what Promise.all resolved to
    printed,                \* the rows written to the terminal
    eng                     \* the engine function last applied, with its inputs

vars == <<program, argCheck, manifest, lock, pc, exitReason, dependencies,
          installedDependencies, packagesToCheck, task, results, printed, eng>>

runVars == <<program, argCheck, manifest, lock, pc, exitReason, dependencies,
             installedDependencies, packagesToCheck, task, results, printed>>

NoPayload == Payload("none", FALSE, NULL, FALSE, NULL, FALSE, <<>>)

NoRead == [ok |-> FALSE, version |-> NULL]

EngIdle ==
    [fn |-> "idle", range |-> NULL, versions |-> <<>>, hsv |-> NULL,
     installed |-> NULL, latest |-> NULL, out |-> ""]

\* ------------------------------------------------------------------------
\* part_000: the functions of the run
\* ------------------------------------------------------------------------

\* the catch branch of getLastVersionInfo
DegradedInfo(packageName) ==
    [packageName |-> packageName, latestVersion |-> NULL, latestVersionDate |-> NULL,
     allVersions |-> <<>>]

\* mutant of GetLastVersionInfo: a missing data.time is not an error
GetLastVersionInfoNoTimeError(packageName, fetched, payload) ==
    IF fetched # "ok" THEN [packageName |-> packageName, latestVersion |-> NULL,
                            latestVersionDate |-> NULL, allVersions |-> <<>>]
    ELSE IF payload.kind = "invalid_json"
    THEN [packageName |-> packageName, latestVersion |-> NULL,
          latestVersionDate |-> NULL, allVersions |-> <<>>]
    ELSE IF ~payload.hasVersions
    THEN [packageName |-> packageName, latestVersion |-> NULL,
          latestVersionDate |-> NULL, allVersions |-> <<>>]
    ELSE [packageName |-> packageName,
          latestVersion |-> payload.latest,
          latestVersionDate |-> IF Falsy(payload.latest) THEN NULL ELSE payload.time,
          allVersions |-> payload.versions]

\* getLastVersionInfo: a failed fetch, a non-OK status, a body that is no
\* JSON and a TypeError on a missing field all end in the catch branch
GetLastVersionInfo(packageName, fetched, payload) ==
    IF fetched # "ok" THEN DegradedInfo(packageName)
    ELSE IF payload.kind = "invalid_json" THEN DegradedInfo(packageName)
    ELSE IF ~Falsy(payload.latest) /\ ~payload.hasTime THEN DegradedInfo(packageName)
    ELSE IF ~payload.hasVersions THEN DegradedInfo(packageName)
    ELSE [packageName |-> packageName,
          latestVersion |-> payload.latest,
          latestVersionDate |-> IF Falsy(payload.latest) THEN NULL ELSE payload.time,
          allVersions |-> payload.versions]

\* installedDependencies[packageName]?.version
LockedVersion(installed, packageName) ==
    IF packageName \in DOMAIN installed THEN installed[packageName] ELSE NULL

\* mutant of GetInstalledVersion: a failed node_modules read yields undefined
GetInstalledVersionNoSentinel(packageName, installed, nodeModules) ==
    IF ~Falsy(LockedVersion(installed, packageName))
    THEN LockedVersion(installed, packageName)
    ELSE nodeModules.version

\* getInstalledVersion: the lock entry, else node_modules, else 'unknown'
GetInstalledVersion(packageName, installed, nodeModules) ==
    IF ~Falsy(LockedVersion(installed, packageName))
    THEN LockedVersion(installed, packageName)
    ELSE IF nodeModules.ok THEN nodeModules.version
    ELSE UNKNOWN

\* createHyperlink
CreateHyperlink(label, url) == [label |-> label, url |-> url]

\* the body of the map callback after its await: [thrown, value]
EvaluateDependency(packageName, currentVersionRange, versionInfo, installedVersion) ==
    LET latestVersion == versionInfo.latestVersion
        highestSatisfyingVersion == HighestSatisfying(currentVersionRange, versionInfo.allVersions)
        upgradeType ==
            IF ~Falsy(highestSatisfyingVersion)
            THEN CheckUpgradeType(installedVersion, latestVersion)
            ELSE "unknown"
        selfUpgrade ==
            IF ~Falsy(highestSatisfyingVersion)
            THEN WillSelfUpgrade(currentVersionRange, highestSatisfyingVersion,
                                 installedVersion, latestVersion)
            ELSE "false"
    IN  IF upgradeType = THROW \/ selfUpgrade = THROW
        THEN [thrown |-> TRUE, value |-> NULL]
        ELSE [thrown |-> FALSE,
              value |->
                [packageName |-> CreateHyperlink(packageName,
                                    "https://www.npmjs.com/package/" \o packageName),
                 currentVersionRange |-> currentVersionRange,
                 highestSatisfyingVersion |-> highestSatisfyingVersion,
                 installedVersion |-> installedVersion,
                 latestVersion |-> latestVersion,
                 latestVersionDate |-> versionInfo.latestVersionDate,
                 upgradeType |-> upgradeType,
                 selfUpgrade |-> (selfUpgrade = "true")]]

\* the text 'N/A' printed for a missing field
NA == [tag |-> "N/A"]

\* one block of the report: value || 'N/A', selfUpgrade ? 'Yes' : 'No'
Row(result) ==
    [packageName |-> result.packageName,
     currentVersionRange |->
        IF RangeFalsy(result.currentVersionRange) THEN NA ELSE result.currentVersionRange,
     highestSatisfyingVersion |->
        IF Falsy(result.highestSatisfyingVersion) THEN NA ELSE result.highestSatisfyingVersion,
     installedVersion |-> result.installedVersion,
     latestVersion |-> IF Falsy(result.latestVersion) THEN NA ELSE result.latestVersion,
     publishedDate |-> IF Falsy(result.latestVersionDate) THEN NA ELSE result.latestVersionDate,
     upgradeType |-> result.upgradeType,
     selfUpgrade |-> IF result.selfUpgrade THEN "Yes" ELSE "No"]

\* results.filter(Boolean)
RECURSIVE FilterBoolean(_)
FilterBoolean(seq) ==
    IF seq = <<>> THEN <<>>
    ELSE IF Head(seq) = NULL THEN FilterBoolean(Tail(seq))
    ELSE <<Head(seq)>> \o FilterBoolean(Tail(seq))

\* a promise of the map callback, created by the fan-out
NewTask == [st |-> "fetch", fetched |-> "pending", payload |-> NoPayload,
            nodeModules |-> NoRead, installedVersion |-> NULL, value |-> NULL,
            turn |-> 0]

\* the position of the next promise to settle among the settlements of the run
NextTurn == Cardinality({m \in DOMAIN task : task[m].turn > 0}) + 1

\* process.exit(1) with its message
Exit(reason) ==
    /\ pc' = "exit"
    /\ exitReason' = reason

\* ------------------------------------------------------------------------
\* part_000: the run
\* ------------------------------------------------------------------------

\* main up to its first suspension: read the manifest, flatten, validate the
\* filter, read the lock file, start the callback of every entry (each runs
\* to its fetch)
MainCli ==
    /\ program = "cli"
    /\ pc = "start"
    /\ LET flattened == FlattenDependencies(MergedSections(manifest.json), "")
           checked == IF argCheck # "" THEN <<Entry(argCheck, ObjGet(flattened, argCheck))>>
                      ELSE flattened
       IN  IF ~manifest.readable
           THEN /\ Exit("ManifestUnreadable")
                /\ UNCHANGED <<dependencies, installedDependencies, packagesToCheck, task>>
           ELSE IF argCheck # "" /\ RangeFalsy(ObjGet(flattened, argCheck))
           THEN /\ Exit("FilterNotDeclared")
                /\ dependencies' = flattened
                /\ UNCHANGED <<installedDependencies, packagesToCheck, task>>
           ELSE IF lock.kind = "none"
           THEN /\ Exit("NoLockFile")
                /\ dependencies' = flattened
                /\ UNCHANGED <<installedDependencies, packagesToCheck, task>>
           ELSE IF lock.kind = "unparsable"
           THEN /\ Exit("LockUnreadable")
                /\ dependencies' = flattened
                /\ UNCHANGED <<installedDependencies, packagesToCheck, task>>
           ELSE /\ pc' = "await"
                /\ dependencies' = flattened
                /\ installedDependencies' = lock.deps
                /\ packagesToCheck' = checked
                /\ task' = [n \in Keys(checked) |-> NewTask]
                /\ UNCHANGED exitReason
    /\ UNCHANGED <<program, argCheck, manifest, lock, results, printed, eng>>

\* the callback of packageName resumes with versionInfo: it reads the
\* installed version, evaluates, and its promise settles
Settle(packageName, fetched, payload, nodeModules) ==
    LET versionInfo == GetLastVersionInfo(packageName, fetched, payload)
        installedVersion == GetInstalledVersion(packageName, installedDependencies, nodeModules)
        outcome == EvaluateDependency(packageName, ObjGet(packagesToCheck, packageName),
                                      versionInfo, installedVersion)
    IN  task' = [task EXCEPT ![packageName] =
                    [st |-> IF outcome.thrown THEN "rejected" ELSE "fulfilled",
                     fetched |-> fetched,
                     payload |-> payload,
                     nodeModules |-> nodeModules,
                     installedVersion |-> installedVersion,
                     value |-> outcome.value,
                     turn |-> NextTurn]]

\* the node_modules read matters only without a lock entry
ReadsFor(packageName) ==
    IF Falsy(LockedVersion(installedDependencies, packageName)) THEN NodeModulesReads
    ELSE {NoRead}

\* fetch(url) settles: a network error or a non-OK status ends in the catch
\* branch of getLastVersionInfo, an OK response goes on to response.json()
FetchSettlesCli(packageName) ==
    /\ program = "cli"
    /\ pc = "await"
    /\ task[packageName].st = "fetch"
    /\ \E fetched \in FetchOutcomes :
          IF fetched = "ok"
          THEN task' = [task EXCEPT ![packageName].st = "json", ![packageName].fetched = "ok"]
          ELSE \E nodeModules \in ReadsFor(packageName) :
                  Settle(packageName, fetched, NoPayload, nodeModules)
    /\ UNCHANGED <<program, argCheck, manifest, lock, pc, exitReason, dependencies,
                   installedDependencies, packagesToCheck, results, printed, eng>>

\* response.json() settles and the callback runs to its end
JsonSettlesCli(packageName) ==
    /\ program = "cli"
    /\ pc = "await"
    /\ task[packageName].st = "json"
    /\ \E payload \in Payloads, nodeModules \in ReadsFor(packageName) :
          Settle(packageName, "ok", payload, nodeModules)
    /\ UNCHANGED <<program, argCheck, manifest, lock, pc, exitReason, dependencies,
                   installedDependencies, packagesToCheck, results, printed, eng>>

\* mutant of JoinReportCli: the report is written once one promise is fulfilled
JoinReportFirstFulfilled ==
    /\ program = "cli"
    /\ pc = "await"
    /\ \E n \in DOMAIN task : task[n].st = "fulfilled"
    /\ \A n \in DOMAIN task : task[n].st # "rejected"
    /\ results' = [i \in 1..Len(packagesToCheck) |-> task[packagesToCheck[i].key].value]
    /\ printed' = [i \in 1..Len(FilterBoolean(results')) |-> Row(FilterBoolean(results')[i])]
    /\ pc' = "done"
    /\ UNCHANGED <<program, argCheck, manifest, lock, exitReason, dependencies,
                   installedDependencies, packagesToCheck, task, eng>>

\* mutant of JoinReportCli: the results are collected as the promises settle
JoinReportCompletionOrder ==
    /\ program = "cli"
    /\ pc = "await"
    /\ \A n \in DOMAIN task : task[n].st = "fulfilled"
    /\ results' = [i \in 1..Len(packagesToCheck) |->
                      task[CHOOSE n \in DOMAIN task : task[n].turn = i].value]
    /\ printed' = [i \in 1..Len(FilterBoolean(results')) |-> Row(FilterBoolean(results')[i])]
    /\ pc' = "done"
    /\ UNCHANGED <<program, argCheck, manifest, lock, exitReason, dependencies,
                   installedDependencies, packagesToCheck, task, eng>>

\* Promise.all resolves once every promise is fulfilled; main prints the
\* report and ends
JoinReportCli ==
    /\ program = "cli"
    /\ pc = "await"
    /\ \A n \in DOMAIN task : task[n].st = "fulfilled"
    /\ results' = [i \in 1..Len(packagesToCheck) |-> task[packagesToCheck[i].key].value]
    /\ printed' = [i \in 1..Len(FilterBoolean(results')) |-> Row(FilterBoolean(results')[i])]
    /\ pc' = "done"
    /\ UNCHANGED <<program, argCheck, manifest, lock, exitReason, dependencies,
                   installedDependencies, packagesToCheck, task, eng>>

\* Promise.all rejects with the first rejection; nothing awaits main(), so
\* the rejection is unhandled and the process dies without a report
CrashCli ==
    /\ program = "cli"
    /\ pc = "await"
    /\ \E n \in DOMAIN task : task[n].st = "rejected"
    /\ pc' = "crashed"
    /\ exitReason' = "UnhandledRejection"
    /\ UNCHANGED <<program, argCheck, manifest, lock, dependencies,
                   installedDependencies, packagesToCheck, task, results, printed, eng>>

InitRun ==
    /\ argCheck \in CheckArgs
    /\ manifest \in [readable : {TRUE}, json : Manifests]
                    \cup {[readable |-> FALSE, json |-> Manifest(<<>>, <<>>, <<>>)]}
    /\ pc = "start"
    /\ exitReason = ""
    /\ dependencies = <<>>
    /\ installedDependencies = NoLockDeps
    /\ packagesToCheck = <<>>
    /\ task = <<>>
    /\ results = <<>>
    /\ printed = <<>>
    /\ eng = EngIdle

InitCli ==
    /\ program = "cli"
    /\ lock \in LockFiles
    /\ InitRun

NextCli ==
    \/ MainCli
    \/ \E n \in DOMAIN task : FetchSettlesCli(n)
    \/ \E n \in DOMAIN task : JsonSettlesCli(n)
    \/ JoinReportCli
    \/ CrashCli

\* the run of part_000
SpecCli == InitCli /\ [][NextCli]_vars

\* ------------------------------------------------------------------------
\* index.js
\* ------------------------------------------------------------------------

\* getLastVersionInfo of index.js: NULL from the catch branch (a failed
\* fetch, a body that is no JSON, a TypeError on missing dist-tags / time);
\* the status of the response is not looked at
GetLastVersionInfoIndex(packageName, fetched, payload) ==
    IF fetched = "network_error" THEN NULL
    ELSE IF payload.kind = "invalid_json" THEN NULL
    ELSE IF ~payload.hasDistTags THEN NULL
    ELSE IF ~payload.hasTime THEN NULL
    ELSE [packageName |-> packageName,
          latestVersion |-> payload.latest,
          latestVersionDate |-> payload.time]

\* willSelfUpgrade of index.js
WillSelfUpgradeIndex(currentVersionRange, latestVersion) ==
    Satisfies(latestVersion, currentVersionRange)

\* the body of the map callback of index.js after its await: the result,
\* undefined without versionInfo
EvaluateIndex(packageName, currentVersionRange, versionInfo) ==
    IF versionInfo # NULL
    THEN [packageName |-> packageName,
          currentVersionRange |-> currentVersionRange,
          latestVersion |-> versionInfo.latestVersion,
          latestVersionDate |-> versionInfo.latestVersionDate,
          selfUpgrade |-> WillSelfUpgradeIndex(currentVersionRange, versionInfo.latestVersion)]
    ELSE NULL

\* new Date(b.latestVersionDate) - new Date(a.latestVersionDate); NaN, which
\* sort takes as 0, when a date is missing
CompareDateDesc(a, b) ==
    IF Falsy(a.latestVersionDate) \/ Falsy(b.latestVersionDate) THEN 0
    ELSE b.latestVersionDate.date - a.latestVersionDate.date

RECURSIVE InsertByDate(_, _)
InsertByDate(x, sorted) ==
    IF sorted = <<>> THEN <<x>>
    ELSE IF CompareDateDesc(x, Head(sorted)) < 0
         THEN <<x>> \o sorted
         ELSE <<Head(sorted)>> \o InsertByDate(x, Tail(sorted))

\* .sort(by publication date, newest first), stable
RECURSIVE SortByDate(_)
SortByDate(seq) ==
    IF seq = <<>> THEN <<>>
    ELSE InsertByDate(Head(seq), SortByDate(Tail(seq)))

\* printing a row throws on padEnd of a range or a latest version that is
\* no string, and on format() of an invalid date
RowThrowsIndex(result) ==
    \/ ~IsString(result.currentVersionRange)
    \/ Falsy(result.latestVersion)
    \/ Falsy(result.latestVersionDate)

RowIndex(result) ==
    [packageName |-> result.packageName,
     currentVersionRange |-> result.currentVersionRange,
     latestVersion |-> result.latestVersion,
     publishedDate |-> result.latestVersionDate,
     selfUpgrade |-> IF result.selfUpgrade THEN "Yes" ELSE "No"]

\* the rows printed before the first row that throws
RECURSIVE PrintedIndex(_)
PrintedIndex(seq) ==
    IF seq = <<>> THEN <<>>
    ELSE IF RowThrowsIndex(Head(seq)) THEN <<>>
    ELSE <<RowIndex(Head(seq))>> \o PrintedIndex(Tail(seq))

\* main of index.js up to its first suspension: parse the manifest (a throw
\* rejects main), merge the sections, narrow to the --check name without
\* looking whether it is declared, start the callback of every entry
MainIndex ==
    /\ program = "index"
    /\ pc = "start"
    /\ LET merged == MergedSections(manifest.json)
           filteredDependencies ==
               IF argCheck # "" THEN <<Entry(argCheck, ObjGet(merged, argCheck))>>
               ELSE merged
       IN  IF ~manifest.readable
           THEN /\ pc' = "crashed"
                /\ exitReason' = "UnhandledRejection"
                /\ UNCHANGED <<dependencies, packagesToCheck, task>>
           ELSE /\ pc' = "await"
                /\ dependencies' = merged
                /\ packagesToCheck' = filteredDependencies
                /\ task' = [n \in Keys(filteredDependencies) |-> NewTask]
                /\ UNCHANGED exitReason
    /\ UNCHANGED <<program, argCheck, manifest, lock, installedDependencies, results,
                   printed, eng>>

SettleIndex(packageName, fetched, payload) ==
    task' = [task EXCEPT ![packageName] =
                [st |-> "fulfilled",
                 fetched |-> fetched,
                 payload |-> payload,
                 nodeModules |-> NoRead,
                 installedVersion |-> NULL,
                 value |-> EvaluateIndex(packageName, ObjGet(packagesToCheck, packageName),
                              GetLastVersionInfoIndex(packageName, fetched, payload)),
                 turn |-> NextTurn]]

\* fetch(url) settles: a network error ends in the catch branch, any
\* response goes on to response.json()
FetchSettlesIndex(packageName) ==
    /\ program = "index"
    /\ pc = "await"
    /\ task[packageName].st = "fetch"
    /\ \E fetched \in FetchOutcomes :
          IF fetched = "network_error"
          THEN SettleIndex(packageName, fetched, NoPayload)
          ELSE task' = [task EXCEPT ![packageName].st = "json",
                                    ![packageName].fetched = fetched]
    /\ UNCHANGED <<program, argCheck, manifest, lock, pc, exitReason, dependencies,
                   installedDependencies, packagesToCheck, results, printed, eng>>

\* response.json() settles and the callback runs to its end
JsonSettlesIndex(packageName) ==
    /\ program = "index"
    /\ pc = "await"
    /\ task[packageName].st = "json"
    /\ \E payload \in (IF task[packageName].fetched = "ok" THEN Payloads ELSE ErrorPayloads) :
          SettleIndex(packageName, task[packageName].fetched, payload)
    /\ UNCHANGED <<program, argCheck, manifest, lock, pc, exitReason, dependencies,
                   installedDependencies, packagesToCheck, results, printed, eng>>

\* Promise.all resolves; the results that are not undefined are sorted and
\* printed; a row that throws rejects main after the rows before it
JoinReportIndex ==
    /\ program = "index"
    /\ pc = "await"
    /\ \A n \in DOMAIN task : task[n].st = "fulfilled"
    /\ results' = [i \in 1..Len(packagesToCheck) |-> task[packagesToCheck[i].key].value]
    /\ LET rows == SortByDate(FilterBoolean(results'))
       IN  /\ printed' = PrintedIndex(rows)
           /\ IF \E i \in 1..Len(rows) : RowThrowsIndex(rows[i])
              THEN pc' = "crashed" /\ exitReason' = "UnhandledRejection"
              ELSE pc' = "done" /\ UNCHANGED exitReason
    /\ UNCHANGED <<program, argCheck, manifest, lock, dependencies,
                   installedDependencies, packagesToCheck, task, eng>>

InitIndex ==
    /\ program = "index"
    /\ lock = [kind |-> "none", deps |-> NoLockDeps]
    /\ InitRun

NextIndex ==
    \/ MainIndex
    \/ \E n \in DOMAIN task : FetchSettlesIndex(n)
    \/ \E n \in DOMAIN task : JsonSettlesIndex(n)
    \/ JoinReportIndex

\* the run of index.js
SpecIndex == InitIndex /\ [][NextIndex]_vars

\* ------------------------------------------------------------------------
\* The engine functions applied to every input of the bounded universe
\* ------------------------------------------------------------------------

\* the keys of data.versions: versions, or a key that is no version
Candidates == Versions \cup {BADVER}

\* allVersions: at most two distinct keys, in either order
VersionLists ==
    {<<>>} \cup {<<a>> : a \in Candidates}
           \cup {p \in Candidates \X Candidates : p[1] # p[2]}

\* the versions the two-sided ranges are built from
BinaryBases == {v \in Versions : v.patch = 0 /\ v.pre = 0}

Ranges ==
    {R(k, v, V0) : k \in UnaryKinds, v \in Versions}
    \cup {R(k, p[1], p[2]) : k \in BinaryKinds, p \in BinaryBases \X BinaryBases}
    \cup {RangeAny, RangeEmpty, RangeBad}

\* what getInstalledVersion can return
InstalledValues == Versions \cup {UNKNOWN, NULL, BADVER}

\* what data['dist-tags']?.latest can be
LatestValues == Versions \cup {NULL, BADVER}

Applied(fn, range, versions, hsv, installed, latest, out) ==
    [fn |-> fn, range |-> range, versions |-> versions, hsv |-> hsv,
     installed |-> installed, latest |-> latest, out |-> out]

\* the range matcher of main on (range, allVersions)
ApplyHighestSatisfying ==
    /\ program = "engine"
    /\ eng.fn = "idle"
    /\ \E range \in Ranges, allVersions \in VersionLists :
          eng' = Applied("highestSatisfying", range, allVersions,
                         HighestSatisfying(range, allVersions), NULL, NULL, "")
    /\ UNCHANGED runVars

\* checkUpgradeType on (installed, latest)
ApplyCheckUpgradeType ==
    /\ program = "engine"
    /\ eng.fn = "idle"
    /\ \E installed \in InstalledValues, latest \in LatestValues :
          eng' = Applied("checkUpgradeType", NULL, <<>>, NULL, installed, latest,
                         CheckUpgradeType(installed, latest))
    /\ UNCHANGED runVars

\* willSelfUpgrade on (range, highestSatisfying, installed, latest)
ApplyWillSelfUpgrade ==
    /\ program = "engine"
    /\ eng.fn = "idle"
    /\ \E range \in Ranges \cup {NULL}, hsv \in Versions \cup {NULL},
          installed \in InstalledValues, latest \in {NULL, V0} :
          eng' = Applied("willSelfUpgrade", range, <<>>, hsv, installed, latest,
                         WillSelfUpgrade(range, hsv, installed, latest))
    /\ UNCHANGED runVars

InitEngine ==
    /\ program = "engine"
    /\ argCheck = ""
    /\ manifest = [readable |-> FALSE, json |-> Manifest(<<>>, <<>>, <<>>)]
    /\ lock = [kind |-> "none", deps |-> NoLockDeps]
    /\ pc = "start"
    /\ exitReason = ""
    /\ dependencies = <<>>
    /\ installedDependencies = NoLockDeps
    /\ packagesToCheck = <<>>
    /\ task = <<>>
    /\ results = <<>>
    /\ printed = <<>>
    /\ eng = EngIdle

NextEngine ==
    \/ ApplyHighestSatisfying
    \/ ApplyCheckUpgradeType
    \/ ApplyWillSelfUpgrade

\* the engine functions on all inputs of the universe
SpecEngine == InitEngine /\ [][NextEngine]_vars

\* the engine functions on all inputs of the universe, and the run of part_000
InitAll == InitCli \/ InitEngine

NextAll == NextCli \/ NextEngine

SpecAll == InitAll /\ [][NextAll]_vars

\* ------------------------------------------------------------------------
\* Properties
\* ------------------------------------------------------------------------

Elems(seq) == {seq[i] : i \in 1..Len(seq)}

Settled(t) == t.st \in {"fulfilled", "rejected"}

\* C1: the highest satisfying version computed from (range, allVersions) is
\* absent exactly when no element of allVersions satisfies the range (the
\* empty list included); otherwise it is an element of allVersions that
\* satisfies the range and is greater than or equal, by precedence, to every
\* element that satisfies it.
C1_HighestSatisfyingIsMaximum ==
    eng.fn = "highestSatisfying" =>
        LET satisfying == {v \in Elems(eng.versions) : Satisfies(v, eng.range)}
        IN  /\ eng.hsv = NULL <=> satisfying = {}
            /\ eng.hsv # NULL =>
                  /\ eng.hsv \in satisfying
                  /\ \A w \in satisfying : Compare(eng.hsv, w) >= 0

\* two versions satisfy the range and the greater one is listed last
C1_Witness ==
    /\ eng.fn = "highestSatisfying"
    /\ Len(eng.versions) = 2
    /\ Satisfies(eng.versions[1], eng.range)
    /\ Satisfies(eng.versions[2], eng.range)
    /\ Compare(eng.versions[2], eng.versions[1]) > 0
    /\ eng.hsv = eng.versions[2]

\* C2: willSelfUpgrade(range, highestSatisfying, installed, latest), for an
\* installed version that is a version or 'unknown', returns false when
\* highestSatisfying, range (undefined or '') or latest is absent or installed
\* is 'unknown'; otherwise it returns true exactly when highestSatisfying
\* satisfies range and is strictly greater than installed. So every result of
\* the run with selfUpgrade = true has a highest satisfying version that
\* satisfies the declared range and is strictly greater than the installed one.
C2_WillSelfUpgradeContract ==
    /\ (eng.fn = "willSelfUpgrade" /\ eng.installed \in Versions \cup {UNKNOWN}) =>
          IF \/ eng.hsv = NULL
             \/ eng.range \in {NULL, RangeEmpty}
             \/ eng.latest = NULL
             \/ eng.installed = UNKNOWN
          THEN eng.out = "false"
          ELSE eng.out = (IF /\ Satisfies(eng.hsv, eng.range)
                             /\ Compare(eng.hsv, eng.installed) > 0
                          THEN "true" ELSE "false")
    /\ program = "cli" =>
          \A n \in DOMAIN task :
              (task[n].st = "fulfilled" /\ task[n].value.selfUpgrade) =>
                  /\ task[n].value.highestSatisfyingVersion \in Versions \cup {V100, V110, V200}
                  /\ Satisfies(task[n].value.highestSatisfyingVersion,
                               task[n].value.currentVersionRange)
                  /\ IsValid(task[n].value.installedVersion)
                  /\ Compare(task[n].value.highestSatisfyingVersion,
                             task[n].value.installedVersion) > 0

\* willSelfUpgrade answers true although latest and installed differ from
\* the highest satisfying version
C2_Witness ==
    /\ eng.fn = "willSelfUpgrade"
    /\ eng.out = "true"
    /\ eng.range.kind = "caret"
    /\ eng.hsv # eng.latest

\* C3: a dependency whose installed version is the sentinel 'unknown' gets
\* upgradeType 'unknown' and selfUpgrade false (printed 'No'), whatever its
\* range, its available versions and its latest version.
C3_UnknownInstalled ==
    /\ (eng.fn = "checkUpgradeType" /\ eng.installed = UNKNOWN) => eng.out = "unknown"
    /\ (eng.fn = "willSelfUpgrade" /\ eng.installed = UNKNOWN) => eng.out = "false"
    /\ program = "cli" =>
          /\ \A n \in DOMAIN task :
                (Settled(task[n]) /\ task[n].installedVersion = UNKNOWN) =>
                    /\ task[n].st = "fulfilled"
                    /\ task[n].value.installedVersion = UNKNOWN
                    /\ task[n].value.upgradeType = "unknown"
                    /\ task[n].value.selfUpgrade = FALSE
          /\ \A i \in 1..Len(printed) :
                printed[i].installedVersion = UNKNOWN =>
                    /\ printed[i].upgradeType = "unknown"
                    /\ printed[i].selfUpgrade = "No"

\* an unresolved installed version next to a satisfying version and a latest
\* version, reported
C3_Witness ==
    /\ program = "cli"
    /\ pc = "done"
    /\ \E n \in DOMAIN task :
          /\ task[n].installedVersion = UNKNOWN
          /\ task[n].value.highestSatisfyingVersion = V110
          /\ task[n].value.latestVersion = V200

\* C4: for valid versions with latest.major > installed.major,
\* checkUpgradeType returns 'major', whatever the minor and patch components.
C4_MajorWins ==
    ( /\ eng.fn = "checkUpgradeType"
      /\ IsValid(eng.installed)
      /\ IsValid(eng.latest)
      /\ eng.latest.major > eng.installed.major ) => eng.out = "major"

\* a major bump whose minor and patch components go down
C4_Witness ==
    /\ eng.fn = "checkUpgradeType"
    /\ IsValid(eng.installed)
    /\ IsValid(eng.latest)
    /\ eng.latest.major > eng.installed.major
    /\ eng.latest.minor < eng.installed.minor
    /\ eng.latest.patch < eng.installed.patch
    /\ eng.out = "major"

\* C5: for valid versions with latest lower than installed by precedence,
\* checkUpgradeType returns 'none'.
C5_DowngradeIsNone ==
    ( /\ eng.fn = "checkUpgradeType"
      /\ IsValid(eng.installed)
      /\ IsValid(eng.latest)
      /\ Compare(eng.latest, eng.installed) < 0 ) => eng.out = "none"

\* the names declared in the manifest, merged and flattened
Declared == Keys(FlattenDependencies(MergedSections(manifest.json), ""))

\* C6: with a --check name that is not in the merged, flattened declarations
\* the run ends in the fatal filter error with no lookup issued and no result
\* produced; with a declared name exactly that name is evaluated.
C6_FilterValidated ==
    (pc # "start" /\ manifest.readable /\ argCheck # "") =>
        IF argCheck \notin Declared
        THEN /\ pc = "exit"
             /\ exitReason = "FilterNotDeclared"
             /\ task = <<>>
             /\ results = <<>>
             /\ printed = <<>>
        ELSE pc \in {"await", "done", "crashed"} =>
                /\ Keys(packagesToCheck) = {argCheck}
                /\ DOMAIN task = {argCheck}

\* the registry lookup of a task failed: the fetch, the status, the body
HardFailure(t) ==
    \/ t.fetched \in {"network_error", "http_error"}
    \/ /\ t.fetched = "ok"
       /\ \/ t.payload.kind = "invalid_json"
          \/ ~t.payload.hasVersions
          \/ t.payload.latest # NULL /\ ~t.payload.hasTime

\* the payload is well formed but carries no 'latest' tag
MissingLatest(t) ==
    /\ t.fetched = "ok"
    /\ t.payload.kind = "data"
    /\ t.payload.hasVersions
    /\ t.payload.latest = NULL

LookupFailed(t) == HardFailure(t) \/ MissingLatest(t)

\* C7 as stated: a dependency whose lookup failed (network error, non-OK
\* status, malformed payload, missing 'latest' tag) gets a result with all
\* registry fields absent, upgradeType 'unknown' and selfUpgrade false.
C7_FailedLookupAllAbsent ==
    \A n \in DOMAIN task :
        (Settled(task[n]) /\ LookupFailed(task[n])) =>
            /\ task[n].st = "fulfilled"
            /\ task[n].value.latestVersion = NULL
            /\ task[n].value.latestVersionDate = NULL
            /\ task[n].value.highestSatisfyingVersion = NULL
            /\ task[n].value.upgradeType = "unknown"
            /\ task[n].value.selfUpgrade = FALSE

\* C7, amended: a dependency whose lookup failed is never rejected: its
\* result has no latest version, no date, upgradeType 'unknown' and
\* selfUpgrade false; the highest satisfying version is absent after a
\* network error, a non-OK status or a malformed payload, and is still the
\* one computed from the available versions when only the 'latest' tag is
\* missing. The failure never ends the run: a crash always comes from a
\* dependency whose lookup did not fail, a settled sibling is never changed,
\* and a run that is done has printed one row per evaluated dependency.
C7_FailedLookupDegradedInv ==
    /\ \A n \in DOMAIN task :
          (Settled(task[n]) /\ LookupFailed(task[n])) =>
              /\ task[n].st = "fulfilled"
              /\ task[n].value.latestVersion = NULL
              /\ task[n].value.latestVersionDate = NULL
              /\ task[n].value.upgradeType = "unknown"
              /\ task[n].value.selfUpgrade = FALSE
              /\ HardFailure(task[n]) => task[n].value.highestSatisfyingVersion = NULL
              /\ MissingLatest(task[n]) =>
                    (task[n].value.highestSatisfyingVersion = NULL
                       <=> \A v \in Elems(task[n].payload.versions) :
                              ~Satisfies(v, task[n].value.currentVersionRange))
    /\ pc = "crashed" =>
          \E n \in DOMAIN task : task[n].st = "rejected" /\ ~LookupFailed(task[n])
    /\ pc = "done" =>
          /\ Len(printed) = Len(packagesToCheck)
          /\ \A i \in 1..Len(printed) :
                printed[i].packageName.label = packagesToCheck[i].key

C7_FailedLookupDegraded ==
    /\ []C7_FailedLookupDegradedInv
    /\ [][\A n \in DOMAIN task : Settled(task[n]) => task'[n] = task[n]]_vars

\* two lookups fail, one by a network error and one by a missing 'latest'
\* tag that leaves a satisfying version, and the run is done
C7_Witness ==
    /\ pc = "done"
    /\ \E n, m \in DOMAIN task :
          /\ n # m
          /\ task[n].fetched = "network_error"
          /\ MissingLatest(task[m])
          /\ task[m].value.highestSatisfyingVersion # NULL

\* C8: a malformed declared range, installed version or latest version is
\* recovered inside the evaluation of its dependency: the promise is never
\* rejected, the result has no satisfying version (range) or upgradeType
\* 'unknown' (versions), and the run does not crash.
C8_MalformedRecoveredLocally ==
    /\ pc # "crashed"
    /\ \A n \in DOMAIN task :
          Settled(task[n]) =>
              /\ task[n].st = "fulfilled"
              /\ task[n].value.currentVersionRange = RangeBad =>
                    task[n].value.highestSatisfyingVersion = NULL
              /\ (task[n].installedVersion = BADVER \/ task[n].value.latestVersion = BADVER) =>
                    task[n].value.upgradeType = "unknown"

\* the --check name is not usable: undeclared, or declared with the range ''
FilterRefused ==
    argCheck # "" /\ (argCheck \notin Declared
                       \/ ObjGet(FlattenDependencies(MergedSections(manifest.json), ""),
                                 argCheck) = RangeEmpty)

C10_OneResultPerName ==
    pc = "done" =>
        /\ Len(printed) = Len(packagesToCheck)
        /\ \A n \in Keys(packagesToCheck) :
              Cardinality({i \in 1..Len(printed) : printed[i].packageName = n}) = 1

\* the names to evaluate and their ranges, from the manifest and the filter
Evaluated ==
    IF argCheck # ""
    THEN <<Entry(argCheck, ObjGet(FlattenDependencies(MergedSections(manifest.json), ""),
                                  argCheck))>>
    ELSE FlattenDependencies(MergedSections(manifest.json), "")

\* the outcome of evaluating one name on the snapshot its task has seen: the
\* lock file, the node_modules read and the registry answer
OnSnapshot(n) ==
    EvaluateDependency(n, ObjGet(Evaluated, n),
                       GetLastVersionInfo(n, task[n].fetched, task[n].payload),
                       GetInstalledVersion(n, lock.deps, task[n].nodeModules))

\* C11: the result sequence of a completed run is a function of the
\* snapshot alone (manifest, filter, lock file, node_modules reads, registry
\* answers): it is the evaluation of each name on the snapshot, in the order
\* of declaration, whatever the order in which the lookups completed; and
\* whether the run reports at all is decided by the snapshot too.
C11_Idempotent ==
    /\ pc = "done" =>
          /\ Len(results) = Len(Evaluated)
          /\ \A i \in 1..Len(results) :
                /\ ~OnSnapshot(Evaluated[i].key).thrown
                /\ results[i] = OnSnapshot(Evaluated[i].key).value
          /\ printed = [i \in 1..Len(results) |-> Row(OnSnapshot(Evaluated[i].key).value)]
    /\ pc = "crashed" =>
          /\ printed = <<>>
          /\ \E n \in DOMAIN task : Settled(task[n]) /\ OnSnapshot(n).thrown

\* a completed run of two dependencies with different results whose lookups
\* completed in the order opposite to their declaration
C11_Witness ==
    /\ pc = "done"
    /\ Len(results) = 2
    /\ results[1].upgradeType # results[2].upgradeType
    /\ task[Evaluated[1].key].turn = 2
    /\ task[Evaluated[2].key].turn = 1

\* ------------------------------------------------------------------------
\* flattenDependencies applied to nested declaration structures
\* ------------------------------------------------------------------------

\* the keys of the declaration structures
TreeNames == {"a", "b"}

\* the string leaves: two ranges, so that a leaf is told by its value
TreeLeaves == {R("caret", V100, V0), R("tilde", V100, V0)}

\* the objects whose values are taken from vals: keys "a", "b" or both
TreeObjects(vals) ==
    {<<Entry(k, v)>> : k \in TreeNames, v \in vals}
    \cup {<<Entry("a", p[1]), Entry("b", p[2])>> : p \in vals \X vals}

\* objects of string leaves
Trees1 == TreeObjects(TreeLeaves)

\* objects nested at most two deep
Trees2 == TreeObjects(TreeLeaves \cup {Obj(t) : t \in Trees1})

\* objects nested at most three deep
Trees3 == TreeObjects(TreeLeaves \cup {Obj(t) : t \in Trees2})

\* flattenDependencies(dependencies) as main calls it
ApplyFlattenDependencies ==
    /\ program = "flatten"
    /\ eng.fn = "idle"
    /\ eng' = [fn |-> "flattenDependencies", input |-> eng.input,
               out |-> FlattenDependencies(eng.input, "")]
    /\ UNCHANGED runVars

InitFlatten ==
    /\ program = "flatten"
    /\ argCheck = ""
    /\ manifest = [readable |-> FALSE, json |-> Manifest(<<>>, <<>>, <<>>)]
    /\ lock = [kind |-> "none", deps |-> NoLockDeps]
    /\ pc = "start"
    /\ exitReason = ""
    /\ dependencies = <<>>
    /\ installedDependencies = NoLockDeps
    /\ packagesToCheck = <<>>
    /\ task = <<>>
    /\ results = <<>>
    /\ printed = <<>>
    /\ \E input \in Trees3 : eng = [fn |-> "idle", input |-> input, out |-> <<>>]

NextFlatten == ApplyFlattenDependencies

\* flattenDependencies on every declaration structure of the universe
SpecFlatten == InitFlatten /\ [][NextFlatten]_vars

\* the string leaves of a structure, each under the '/'-joined path of its
\* enclosing keys and its own key
RECURSIVE LeafPaths(_, _)
LeafPaths(entries, path) ==
    IF entries = <<>> THEN {}
    ELSE (IF IsString(Head(entries).val)
          THEN {Entry(path \o Head(entries).key, Head(entries).val)}
          ELSE IF IsObject(Head(entries).val)
          THEN LeafPaths(Head(entries).val.obj, path \o Head(entries).key \o "/")
          ELSE {})
         \cup LeafPaths(Tail(entries), path)

\* C12: flattenDependencies maps every string leaf, at any depth, to the
\* '/'-joined path of all its enclosing keys followed by its own key, with
\* its value: the flattened entries are exactly the leaves under their full
\* paths, so no two leaves share a key and no leaf is lost.
C12_FlattenFullPaths ==
    eng.fn = "flattenDependencies" =>
        /\ Elems(eng.out) = LeafPaths(eng.input, "")
        /\ Len(eng.out) = Cardinality(LeafPaths(eng.input, ""))

\* C13: the upgradeType of every result is checkUpgradeType(installedVersion,
\* latestVersion), whatever the declared range is and whether or not an
\* available version satisfies it (stated where the classifier returns).
C13_ClassifierIndependentOfRange ==
    \A n \in DOMAIN task :
        (task[n].st = "fulfilled"
           /\ CheckUpgradeType(task[n].value.installedVersion,
                               task[n].value.latestVersion) # THROW) =>
            task[n].value.upgradeType =
                CheckUpgradeType(task[n].value.installedVersion, task[n].value.latestVersion)

\* ------------------------------------------------------------------------
\* The runs of both command line programs
\* ------------------------------------------------------------------------

InitRuns == InitCli \/ InitIndex

NextRuns == NextCli \/ NextIndex

\* the run of part_000 and the run of index.js
SpecRuns == InitRuns /\ [][NextRuns]_vars

\* every evaluated name has its lookup issued, and nothing is reported or
\* collected while a lookup is still under way
C14_BarrierInv ==
    /\ pc \in {"await", "done", "crashed"} => DOMAIN task = Keys(packagesToCheck)
    /\ (results # <<>> \/ printed # <<>>) => \A n \in DOMAIN task : Settled(task[n])

\* the step that issues the lookups issues all of them, none yet completed,
\* and no lookup is issued afterwards
C14_FanOutStep ==
    /\ (task = <<>> /\ task' # <<>>) =>
          /\ DOMAIN task' = Keys(packagesToCheck')
          /\ \A n \in DOMAIN task' : task'[n].st = "fetch"
    /\ task # <<>> => DOMAIN task' = DOMAIN task

\* a step that collects or reports results is taken only when every lookup
\* has completed, and completes none itself
C14_FanInStep ==
    (results' # results \/ printed' # printed) =>
        /\ \A n \in DOMAIN task : Settled(task[n])
        /\ task' = task

\* C14: all lookups are issued in one step, before any of them completes
\* (fan-out), and no result is collected, ordered or printed until every
\* issued lookup has completed, with a result or with a failure (fan-in
\* barrier), in every interleaving of the completions.
C14_FanOutFanIn ==
    /\ []C14_BarrierInv
    /\ [][C14_FanOutStep /\ C14_FanInStep]_vars

\* a report of two dependencies, one of whose lookups failed, written after
\* the second declared lookup completed first
C14_Witness ==
    /\ pc = "done"
    /\ Len(packagesToCheck) = 2
    /\ printed # <<>>
    /\ task[packagesToCheck[2].key].turn = 1
    /\ \E n \in DOMAIN task : task[n].fetched = "network_error"

====
